---- MODULE Spec2Model ----
(***************************************************************************)
(* Flow layout of typst-layout (crates/typst-layout/src/flow/mod.rs).      *)
(*                                                                         *)
(* The region loop of layout_flow, the Work queue and the configuration    *)
(* are translated from flow/mod.rs.  The composer and the distributor      *)
(* (flow/compose.rs, flow/distribute.rs) and Regions (typst-library) are   *)
(* modelled from the design document: one composed region is a sequence of *)
(* steps (per column: footnote spill, pending footnotes and floats, then   *)
(* one step per child), with relayout restoring the Work checkpoint.       *)
(*                                                                         *)
(* Lengths (Abs) are integers; Inf stands for an unbounded length.         *)
(*                                                                         *)
(* Work.skips is a handle into a heap of reference-counted cells (rc), so  *)
(* that the clones of a Work share the set until Rc::make_mut copies it.   *)
(*                                                                         *)
(* Spec is the flow itself.  SpecColumns applies configuration() to a      *)
(* range of widths, counts and gutters.  SpecSkips follows the Rc of       *)
(* Work.skips across checkpoints and relayouts in any order.               *)
(***************************************************************************)
EXTENDS Integers, Sequences, FiniteSets, TLC

\* ------------------------------------------------------------------------
\* Bounds of the model
\* ------------------------------------------------------------------------
MaxChildren == 3
MaxBacklog == 1
MaxRegions == 16
MaxColumns == 3
MaxLocations == 2

\* An unbounded length (Abs::inf()); every finite length of the model is
\* far below it.
Inf == 1000

IsFinite(a) == a < Inf

Min(a, b) == IF a <= b THEN a ELSE b
Max(a, b) == IF a >= b THEN a ELSE b

\* Abs subtraction: an unbounded length stays unbounded.
Sub(a, b) == IF IsFinite(a) THEN a - b ELSE Inf

\* Option<T> is a sequence of length 0 (None) or 1 (Some).
None == <<>>
Some(x) == <<x>>

\* ------------------------------------------------------------------------
\* Inputs
\* ------------------------------------------------------------------------
\* The collected children (Child): Single, Multi, Line, Placed and Tag.
\* h is the pre-measured height, note the height of the footnote entry a
\* line's marker refers to (0: no marker), scope the placement scope.
Shapes ==
    { [kind |-> "single", h |-> 2, note |-> 0, scope |-> "none"],
      [kind |-> "single", h |-> 3, note |-> 0, scope |-> "none"],
      [kind |-> "multi",  h |-> 5, note |-> 0, scope |-> "none"],
      [kind |-> "line",   h |-> 1, note |-> 2, scope |-> "none"],
      [kind |-> "placed", h |-> 1, note |-> 0, scope |-> "column"],
      [kind |-> "placed", h |-> 1, note |-> 0, scope |-> "parent"],
      [kind |-> "tag",    h |-> 0, note |-> 0, scope |-> "none"] }

\* A child list: every child carries its position as identity (the
\* Location of a float or footnote, the address of a block).
WithId(f) ==
    [i \in DOMAIN f |->
        [id |-> i, kind |-> f[i].kind, h |-> f[i].h,
         note |-> f[i].note, scope |-> f[i].scope]]

ChildLists == UNION { { WithId(f) : f \in [1..n -> Shapes] } : n \in 0..MaxChildren }

\* Region heights and backlogs.
Heights == {2, 3}
Backlogs == UNION { [1..n -> {3}] : n \in 0..MaxBacklog }

\* Rel<Abs>: an absolute length plus a ratio (in percent) of a whole.
Rel(abs, ratio) == [abs |-> abs, ratio |-> ratio]

\* The layout requests: the regions (size, backlog, repeated last region,
\* expansion) with the requested column count and gutter.
Request(sx, sy, b, l, ex, ey, c) ==
    [size_x |-> sx, size_y |-> sy, backlog |-> b, last |-> l,
     expand_x |-> ex, expand_y |-> ey, columns |-> c, gutter |-> Rel(2, 0)]

\* Requests with a bounded first region.  expand.y only matters to the
\* exit test of the loop, so it is varied for one column and no repeated
\* last region only.
BoundedRequests ==
    { Request(12, sy, b, l, FALSE, FALSE, c) :
        sy \in Heights, b \in Backlogs, l \in {None, Some(2)}, c \in 1..2 }
    \cup { Request(12, sy, b, None, FALSE, TRUE, 1) :
        sy \in Heights, b \in Backlogs }
    \cup { Request(12, 2, <<>>, None, TRUE, FALSE, 1) }

\* Requests with an unbounded width or height.
UnboundedRequests ==
    { Request(Inf, 3, <<>>, None, ex, FALSE, 2) : ex \in BOOLEAN }
    \cup { Request(12, Inf, b, None, FALSE, ey, 1) : b \in Backlogs, ey \in BOOLEAN }
    \cup { Request(Inf, Inf, <<>>, None, TRUE, TRUE, 1) }

Requests == BoundedRequests \cup UnboundedRequests

\* The requests made to the public layout_flow itself rather than through
\* layout_fragment_impl (layout_frame, layout_fragment, layout_columns):
\* those that expand into an unbounded axis, and a bounded one.
DirectRequests ==
    { r \in UnboundedRequests :
        \/ ~IsFinite(r.size_x) /\ r.expand_x
        \/ ~IsFinite(r.size_y) /\ r.expand_y }
    \cup { Request(12, 2, <<>>, None, FALSE, FALSE, 1) }

\* The inputs of an invocation: the realized children, the request and
\* the function that is entered.
Inputs ==
    [children : ChildLists, request : Requests, entry : {"layout_fragment"}]
    \cup [children : ChildLists, request : DirectRequests, entry : {"layout_flow"}]

\* What the engine may report before the region loop: nothing, or an error
\* of the depth check, of realization or of collect.
Faults == {"none", "depth", "realize", "collect"}

\* ------------------------------------------------------------------------
\* Rc<FxHashSet<Location>>: the shared skip set of Work
\* ------------------------------------------------------------------------
\* A cell holds the set and the number of Rc handles to it (strong);
\* strong = 0 is a free cell.  The live Work and the checkpoints of the
\* page and of the column hold at most three handles.
Cells == 1..3
NoCells == [c \in Cells |-> [set |-> {}, strong |-> 0]]

\* Rc::new: a fresh cell with one handle.
Rc_new(cells, value) ==
    LET c == CHOOSE c \in Cells :
                /\ cells[c].strong = 0
                /\ \A d \in Cells : cells[d].strong = 0 => c <= d
    IN  [cells |-> [cells EXCEPT ![c] = [set |-> value, strong |-> 1]], ptr |-> c]

\* Rc::clone (through #[derive(Clone)] of Work): one more handle.
Rc_clone(cells, p) == [cells EXCEPT ![p].strong = @ + 1]

\* Drop of a handle; the cell is freed with the last one.
Rc_drop(cells, p) ==
    IF cells[p].strong = 1
    THEN [cells EXCEPT ![p] = [set |-> {}, strong |-> 0]]
    ELSE [cells EXCEPT ![p].strong = @ - 1]

\* Faulty variant of Rc::make_mut: the shared cell is handed out for
\* mutation as it is.
Rc_make_mut_in_place(cells, p) == [cells |-> cells, ptr |-> p]

\* Rc::make_mut: a unique handle is used as it is; a shared one is
\* replaced by a handle to a fresh copy of the set.
Rc_make_mut(cells, p) ==
    IF cells[p].strong = 1
    THEN [cells |-> cells, ptr |-> p]
    ELSE Rc_new(Rc_drop(cells, p), cells[p].set)

\* ------------------------------------------------------------------------
\* Work (flow/mod.rs)
\* ------------------------------------------------------------------------
\* Work::new: the initial work state from a list of children.  skips is
\* the handle of Rc::new(FxHashSet::default()), the first cell allocated.
Work_new(children) ==
    [children |-> children,
     spill |-> None,
     floats |-> <<>>,
     footnotes |-> <<>>,
     footnote_spill |-> None,
     tags |-> <<>>,
     skips |-> Rc_new(NoCells, {}).ptr]

\* Work::head: the first unprocessed child, if any.
head(w) == IF w.children = <<>> THEN None ELSE Some(w.children[1])

\* Faulty variants of Work::advance: the slice advanced by two, and the
\* slice cut at the wrong end.
advance_two(w) == [w EXCEPT !.children = SubSeq(w.children, 3, Len(w.children))]

advance_back(w) == [w EXCEPT !.children = SubSeq(w.children, 1, Len(w.children) - 1)]

\* Work::advance: children = &children[1..].
advance(w) == [w EXCEPT !.children = SubSeq(w.children, 2, Len(w.children))]

\* Faulty variants of Work::done: the spill test negated, the spill test
\* left out, the footnote spill test left out.
done_spill_negated(w) ==
    /\ w.children = <<>>
    /\ w.spill # None
    /\ w.floats = <<>>
    /\ w.footnote_spill = None
    /\ w.footnotes = <<>>

done_without_spill(w) ==
    /\ w.children = <<>>
    /\ w.floats = <<>>
    /\ w.footnote_spill = None
    /\ w.footnotes = <<>>

done_without_footnote_spill(w) ==
    /\ w.children = <<>>
    /\ w.spill = None
    /\ w.floats = <<>>
    /\ w.footnotes = <<>>

\* Faulty variant of Work::done: only the children are looked at.
done_children_only(w) == w.children = <<>>

\* Work::done: whether all work is done.
done(w) ==
    /\ w.children = <<>>
    /\ w.spill = None
    /\ w.floats = <<>>
    /\ w.footnote_spill = None
    /\ w.footnotes = <<>>

\* Faulty variant of Work::extend_skips: the set is extended on a copy
\* that is thrown away.
extend_skips_lost(w, cells, skips) == [work |-> w, cells |-> cells]

\* Work::extend_skips: if !skips.is_empty()
\* { Rc::make_mut(&mut self.skips).extend(skips) }.
extend_skips(w, cells, skips) ==
    IF skips # {}
    THEN LET m == Rc_make_mut(cells, w.skips)
         IN  [work |-> [w EXCEPT !.skips = m.ptr],
              cells |-> [m.cells EXCEPT ![m.ptr].set = @ \cup skips]]
    ELSE [work |-> w, cells |-> cells]

\* #[derive(Clone)] for Work: every field is cloned; the clone of the Rc
\* of skips is one more handle to the same cell.
Work_clone(w, cells) ==
    [work |-> [children |-> w.children,
               spill |-> w.spill,
               floats |-> w.floats,
               footnotes |-> w.footnotes,
               footnote_spill |-> w.footnote_spill,
               tags |-> w.tags,
               skips |-> w.skips],
     cells |-> Rc_clone(cells, w.skips)]

\* Drop of a Work: its handle to the skip set is dropped.
Work_drop(w, cells) == Rc_drop(cells, w.skips)

\* ------------------------------------------------------------------------
\* Configuration (flow/mod.rs)
\* ------------------------------------------------------------------------
\* Rel::relative_to: the ratio of the whole (regions.base().x, which is
\* size.x) plus the absolute part; the ratio of an unbounded whole counts
\* as zero.  The modelled wholes are multiples of 100 / ratio.
relative_to(rel, whole) ==
    (IF IsFinite(whole) THEN (rel.ratio * whole) \div 100 ELSE 0) + rel.abs

\* Faulty variant of configuration(): the requested count is kept for an
\* unbounded width.
configuration_keeping_count(regs, columns, column_gutter) ==
    LET count == columns
        gutter == relative_to(column_gutter, regs.size_x)
    IN  [count |-> count,
         width |-> [num |-> Sub(regs.size_x, gutter * (count - 1)), den |-> count],
         gutter |-> gutter]

\* The column part of configuration(): count, width and gutter.  The width
\* (size.x - gutter * (count - 1)) / count is kept as the exact fraction
\* num / den.
configuration(regs, columns, column_gutter) ==
    LET count == IF ~IsFinite(regs.size_x) THEN 1 ELSE columns
        gutter == relative_to(column_gutter, regs.size_x)
    IN  [count |-> count,
         width |-> [num |-> Sub(regs.size_x, gutter * (count - 1)), den |-> count],
         gutter |-> gutter]

\* Faulty variant of the height check: it only rejects when the width is
\* unbounded as well.
InfiniteHeight_with_width(regs) ==
    ~IsFinite(regs.size_y) /\ regs.expand_y /\ ~IsFinite(regs.size_x)

\* The two precondition checks of layout_fragment_impl.
InfiniteWidth(regs) == ~IsFinite(regs.size_x) /\ regs.expand_x
InfiniteHeight(regs) == ~IsFinite(regs.size_y) /\ regs.expand_y

\* Regions as handed to layout_flow.
RegionsOf(req) ==
    [size_x |-> req.size_x, size_y |-> req.size_y, full |-> req.size_y,
     backlog |-> req.backlog, last |-> req.last,
     expand_x |-> req.expand_x, expand_y |-> req.expand_y]

\* Regions::next: advance to the next region, from the backlog or else the
\* repeated last region; without either the region stays as it is.
Regions_next(regs) ==
    IF regs.backlog # <<>>
    THEN [regs EXCEPT !.size_y = regs.backlog[1], !.full = regs.backlog[1],
                      !.backlog = Tail(regs.backlog)]
    ELSE IF regs.last # None
    THEN [regs EXCEPT !.size_y = regs.last[1], !.full = regs.last[1]]
    ELSE regs

\* Faulty variant of the loop exit test: the backlog is not drained.
LoopExit_without_drain(w, regs) == done(w)

\* The loop exit test of layout_flow.
LoopExit(w, regs) == done(w) /\ (~regs.expand_y \/ regs.backlog = <<>>)

\* ------------------------------------------------------------------------
\* State
\* ------------------------------------------------------------------------
VARIABLES
    pc,         \* position in layout_fragment_impl / layout_flow / compose
    input,      \* the realized children and the layout request
    regions,    \* layout_flow's `regions`
    config,     \* the flow's Config (column part)
    work,       \* layout_flow's `work`
    finished,   \* layout_flow's `finished` frames
    comp,       \* the Composer of the running compose call
    dist,       \* the Distributor of the running column
    hist,       \* history: first encounter of floats, Work at attempt starts,
                \* the stages of layout_fragment_impl that were run, the
                \* error that ended the flow, whether the skip set was
                \* extended in the region
    rc          \* the reference-counted cells of the skip sets; Work.skips
                \* is a handle to one of them

vars == <<pc, input, regions, config, work, finished, comp, dist, hist, rc>>

\* The set a Work sees through its handle.
SkipsOf(w) == rc[w.skips].set

\* A Work with the skip set in place of the handle to it.
View(w) == [w EXCEPT !.skips = SkipsOf(w)]

\* A frame: the content slices <<id, from, to>> in order, the floats and
\* footnote entry slices inserted into it, and the tags attached to it.
EmptyFrame == [items |-> <<>>, floats |-> <<>>, notes |-> <<>>, tags |-> <<>>]

Slice(id, from, to) == [id |-> id, from |-> from, to |-> to]

\* An insertion area (column or page level): the floats and footnote
\* slices reserved in it, their identities and the height they take.
NoInsertions == [floats |-> <<>>, notes |-> <<>>, skips |-> {}, height |-> 0]

push_float(area, u) ==
    [area EXCEPT !.floats = Append(@, u.id), !.skips = @ \cup {u.id},
                 !.height = @ + u.h]

push_footnote(area, id, from, to) ==
    [area EXCEPT !.notes = Append(@, Slice(id, from, to)), !.skips = @ \cup {id},
                 !.height = @ + (to - from)]

\* The checkpoints are Option<Work>: the page's is taken when the composer
\* is made, the column's when a column is begun.
NewComposer(w) ==
    [column |-> 0,
     page_insertions |-> NoInsertions,
     column_insertions |-> NoInsertions,
     footnote_queue |-> <<>>,
     footnote_spill |-> None,
     page_checkpoint |-> w,
     column_checkpoint |-> None,
     column_spill |-> None,
     relayouts |-> [column |-> 0, parent |-> 0],
     raised |-> 0,
     stop |-> "none",
     output |-> EmptyFrame]

NewDistributor == [items |-> <<>>, used |-> 0, footnotes |-> <<>>, floats |-> <<>>]

\* Faulty variant of the push: the frame is inserted at the front.
push_front(frames, frame) == <<frame>> \o frames

\* Vec::push of layout_flow's `finished.push(frame)`.
push(frames, frame) == Append(frames, frame)

Init ==
    /\ pc = "start"
    /\ input \in Inputs
    /\ regions = RegionsOf(input.request)
    /\ config = configuration(regions, 1, Rel(0, 0))
    /\ work = Work_new(<<>>)
    /\ finished = <<>>
    /\ comp = NewComposer(None)
    /\ dist = NewDistributor
    /\ rc = NoCells
    /\ hist = [seen |-> [i \in 1..Len(input.children) |-> 0],
               page_start |-> View(work), column_start |-> View(work),
               composed |-> 0, relayouts |-> 0, dones |-> 0, ran |-> {},
               fault |-> "none", extended |-> FALSE]

\* ------------------------------------------------------------------------
\* layout_fragment_impl and the setup of layout_flow
\* ------------------------------------------------------------------------
\* The stages of layout_fragment_impl and layout_flow that precede the
\* region loop, in the order they run.
Stages == {"depth", "realize", "configuration", "collect"}

\* The start of layout_flow, after the stages in `ran`: configuration(),
\* then collect(), whose error ends the flow (`?`), then Work::new.
FlowSetup(ran, fault) ==
    /\ config' = configuration(regions, input.request.columns,
                               input.request.gutter)
    /\ IF fault = "collect"
       THEN /\ pc' = "error"
            /\ work' = work
            /\ rc' = rc
            /\ hist' = [hist EXCEPT !.ran = ran \cup {"configuration", "collect"},
                                    !.fault = "collect"]
       ELSE /\ pc' = "compose"
            /\ work' = Work_new(input.children)
            /\ rc' = Rc_new(NoCells, {}).cells
            /\ hist' = [hist EXCEPT !.ran = ran \cup {"configuration", "collect"}]

\* layout_fragment_impl: the precondition checks (bail!), the depth check
\* and realization, each of which may end the call with an error, then
\* layout_flow. The function is memoized (comemo): a call with inputs seen
\* before returns the result of the first call, which is the result of a
\* behaviour of this specification from the same input; the cache itself
\* is not part of the state.
LayoutFragment ==
    /\ pc = "start"
    /\ input.entry = "layout_fragment"
    /\ IF InfiniteWidth(regions) \/ InfiniteHeight(regions)
       THEN /\ pc' = "error"
            /\ hist' = [hist EXCEPT !.fault = "precondition"]
            /\ UNCHANGED <<config, work, rc>>
       ELSE \E fault \in Faults :
            IF fault = "depth"
            THEN /\ pc' = "error"
                 /\ hist' = [hist EXCEPT !.ran = {"depth"}, !.fault = fault]
                 /\ UNCHANGED <<config, work, rc>>
            ELSE IF fault = "realize"
            THEN /\ pc' = "error"
                 /\ hist' = [hist EXCEPT !.ran = {"depth", "realize"},
                                         !.fault = fault]
                 /\ UNCHANGED <<config, work, rc>>
            ELSE FlowSetup({"depth", "realize"}, fault)
    /\ UNCHANGED <<input, regions, finished, comp, dist>>

\* The public layout_flow entered by itself: no precondition check, no
\* depth check, no realization.
LayoutFlow ==
    /\ pc = "start"
    /\ input.entry = "layout_flow"
    /\ \E fault \in {"none", "collect"} : FlowSetup({}, fault)
    /\ UNCHANGED <<input, regions, finished, comp, dist>>

\* ------------------------------------------------------------------------
\* The composer: one region
\* ------------------------------------------------------------------------
\* The height of the current column: the region less the page and column
\* insertions.
PodHeight == Sub(Sub(regions.size_y, comp.page_insertions.height),
                 comp.column_insertions.height)

\* The space left in the current column.
Remaining == Sub(PodHeight, dist.used)

Fits(space, need) == need <= space

\* The heights of the regions that follow the current one: the entries of
\* the backlog, then the repeated last region or, without one, a further
\* region like the one before (the "synthetically added next region").
LaterHeights(regs) ==
    { regs.backlog[k] : k \in DOMAIN regs.backlog }
    \cup (IF regs.last # None THEN {regs.last[1]}
          ELSE IF regs.backlog = <<>> THEN {regs.full}
          ELSE {regs.backlog[Len(regs.backlog)]})

\* Whether a unit of height h fits a later column or region when that is
\* empty.
FitsLater(h) ==
    \/ (comp.column < config.count - 1 /\ h <= regions.full)
    \/ \E x \in LaterHeights(regions) : h <= x

\* The column is empty: nothing is placed or reserved in it.
EmptyColumn == Remaining = regions.full

\* Faulty variant: a unit that does not fit is placed all the same.
Deferred_never(h) == FALSE

\* Faulty variant: a unit that does not fit is always deferred.
Deferred_always(h) == ~Fits(Remaining, h)

\* A unit that does not fit is left for the next column or region, unless
\* it "can never fit even in an empty region": the column is empty and no
\* later one is larger.  Such a unit is placed and overflows.
Deferred(h) == ~Fits(Remaining, h) /\ (~EmptyColumn \/ FitsLater(h))

\* Whether the float or footnote was already handled as an insertion.
Skipped(id) ==
    \/ id \in SkipsOf(work)
    \/ id \in comp.page_insertions.skips
    \/ id \in comp.column_insertions.skips

\* Whether the scope already holds content a new reservation would
\* invalidate.
HasContent(scope) ==
    \/ dist.items # <<>>
    \/ (scope = "parent" /\ comp.column > 0)

\* Faulty variant of the relayout cap: no cap.
MayRelayout_uncapped(scope) == TRUE

\* Whether the scope may still be relayouted in this region.
MayRelayout(scope) == comp.relayouts[scope] = 0

\* compose(): a new Composer, with the page checkpoint of Composer::page.
Compose ==
    /\ pc = "compose"
    /\ Len(finished) < MaxRegions
    /\ LET checkpoint == Work_clone(work, rc)
       IN  /\ comp' = NewComposer(Some(checkpoint.work))
           /\ rc' = checkpoint.cells
    /\ dist' = NewDistributor
    /\ hist' = [hist EXCEPT !.page_start = View(work), !.composed = @ + 1,
                            !.ran = @ \cup {"compose"}, !.extended = FALSE]
    /\ pc' = "column"
    /\ UNCHANGED <<input, regions, config, work, finished>>

\* Faulty variant of the early return: the frames finished so far are
\* handed back with the error.
Discard_keeping(frames) == frames

\* The early return of `?`: layout_flow's locals are dropped, the caller
\* gets Err(diagnostics) and no frame.
Discard(frames) == <<>>

\* compose() returns Err (Stop::Error raised by the layout of a child):
\* the `?` of `compose(...)?` returns from layout_flow.
ComposeError ==
    /\ pc = "compose"
    /\ Len(finished) < MaxRegions
    /\ hist' = [hist EXCEPT !.composed = @ + 1, !.ran = @ \cup {"compose"},
                            !.fault = "compose"]
    /\ finished' = Discard(finished)
    /\ pc' = "error"
    /\ UNCHANGED <<input, regions, config, work, comp, dist, rc>>

\* Composer::column, first part: reset the column insertions, continue a
\* spilled footnote entry, take the column checkpoint.
Column ==
    /\ pc = "column"
    /\ LET taken == [work EXCEPT !.footnote_spill = None]
           sp == work.footnote_spill[1]
           r == Sub(regions.size_y, comp.page_insertions.height)
           rest == sp.to - sp.from
           part == Max(0, Min(rest, r))
           ins == IF work.footnote_spill = None \/ part = 0
                  THEN NoInsertions
                  ELSE push_footnote(NoInsertions, sp.id, sp.from, sp.from + part)
           left == IF work.footnote_spill # None /\ part < rest
                   THEN Some(Slice(sp.id, sp.from + part, sp.to))
                   ELSE None
           checkpoint == Work_clone(taken, rc)
       IN  /\ work' = taken
           /\ comp' = [comp EXCEPT !.column_insertions = ins,
                                   !.footnote_queue = <<>>,
                                   !.footnote_spill = left,
                                   !.column_spill = left,
                                   !.column_checkpoint = Some(checkpoint.work)]
           /\ rc' = checkpoint.cells
           /\ hist' = [hist EXCEPT !.column_start = View(taken)]
    /\ dist' = NewDistributor
    /\ pc' = "contents"
    /\ UNCHANGED <<input, regions, config, finished>>

\* Composer::column_contents, start of an attempt: take the pending
\* footnotes and floats out of the work.
ColumnContents ==
    /\ pc = "contents"
    /\ dist' = [NewDistributor EXCEPT !.footnotes = work.footnotes,
                                      !.floats = work.floats]
    /\ work' = [work EXCEPT !.footnotes = <<>>, !.floats = <<>>]
    /\ pc' = "run"
    /\ UNCHANGED <<input, regions, config, finished, comp, hist, rc>>

\* Raise Stop::Relayout(scope) from the composer state c, for the
\* reservation of the float or footnote entry id.
Raise(c, scope, id) ==
    [c EXCEPT !.stop = scope, !.relayouts[scope] = @ + 1, !.raised = id]

\* Float placement by the composer: what happens to a floating placed
\* child.
\*   "skip"      already handled as an insertion
\*   "queue"     deferred to Work.floats
\*   "reserve"   inserted, nothing placed so far is invalidated
\*   "relayout"  inserted, the scope is redone
\*   "violation" the scope would have to be redone a second time
FloatOutcome(u) ==
    IF Skipped(u.id) THEN "skip"
    ELSE IF work.floats # <<>> THEN "queue"
    ELSE IF Deferred(u.h) THEN "queue"
    ELSE IF ~HasContent(u.scope) THEN "reserve"
    ELSE IF MayRelayout(u.scope) THEN "relayout"
    ELSE "violation"

\* The composer with the float put into the insertion area of its scope.
WithFloat(c, u) ==
    IF u.scope = "parent"
    THEN [c EXCEPT !.page_insertions = push_float(@, u)]
    ELSE [c EXCEPT !.column_insertions = push_float(@, u)]

\* The effect of the float placement on composer and work (the child
\* itself is consumed by the caller).
FloatStep(u, w) ==
    LET o == FloatOutcome(u)
    IN  [work |-> IF o = "queue" THEN [w EXCEPT !.floats = Append(@, u)] ELSE w,
         comp |-> IF o = "reserve" THEN WithFloat(comp, u)
                  ELSE IF o = "relayout" THEN Raise(WithFloat(comp, u), u.scope, u.id)
                  ELSE comp,
         pc |-> IF o \in {"relayout", "violation"} THEN o ELSE "run"]

\* A pending float of an earlier region or column.
PendingFloat ==
    /\ pc = "run"
    /\ dist.footnotes = <<>>
    /\ dist.floats # <<>>
    /\ LET u == Head(dist.floats)
           step == FloatStep(u, work)
       IN  /\ work' = step.work
           /\ comp' = step.comp
           /\ pc' = step.pc
    /\ dist' = [dist EXCEPT !.floats = Tail(@)]
    /\ UNCHANGED <<input, regions, config, finished, hist, rc>>

\* A pending footnote of an earlier region or column: rendered at the
\* start of the column, as far as it fits.
PendingFootnote ==
    /\ pc = "run"
    /\ dist.footnotes # <<>>
    /\ LET n == Head(dist.footnotes)
           r == Remaining
           part == Min(n.h, r)
       IN  IF Skipped(n.id)
           THEN UNCHANGED comp
           ELSE IF \/ comp.footnote_queue # <<>>
                   \/ comp.footnote_spill # None
                   \/ r <= 0
           THEN comp' = [comp EXCEPT !.footnote_queue = Append(@, n)]
           ELSE comp' = [comp EXCEPT
                    !.column_insertions = push_footnote(@, n.id, 0, part),
                    !.footnote_spill =
                        IF part < n.h THEN Some(Slice(n.id, part, n.h)) ELSE None]
    /\ dist' = [dist EXCEPT !.footnotes = Tail(@)]
    /\ UNCHANGED <<pc, input, regions, config, work, finished, hist, rc>>

\* ------------------------------------------------------------------------
\* The distributor: one step per child
\* ------------------------------------------------------------------------
Running == pc = "run" /\ dist.footnotes = <<>> /\ dist.floats = <<>>

Placed(d, id, from, to) ==
    [d EXCEPT !.items = Append(@, Slice(id, from, to)), !.used = @ + (to - from)]

\* Distributor::multi_spill and Distributor::multi: lay out as much of the
\* breakable block as fits; the rest becomes Work.spill and the column is
\* finished.  With no room at all the block is deferred whole.
MultiStep(id, from, to, w) ==
    LET r == Remaining
        rest == to - from
        slice == Min(rest, r)
    IN  IF r <= 0
        THEN [deferred |-> TRUE, dist |-> dist, work |-> w, pc |-> "colfin"]
        ELSE [deferred |-> FALSE,
              dist |-> Placed(dist, id, from, from + slice),
              work |-> IF slice < rest
                       THEN [w EXCEPT !.spill = Some(Slice(id, from + slice, to))]
                       ELSE w,
              pc |-> IF slice < rest THEN "colfin" ELSE "run"]

\* The spill of a breakable block comes first.
MultiSpill ==
    /\ Running
    /\ work.spill # None
    /\ LET sp == work.spill[1]
           step == MultiStep(sp.id, sp.from, sp.to, [work EXCEPT !.spill = None])
       IN  /\ dist' = step.dist
           /\ work' = IF step.deferred THEN work ELSE step.work
           /\ pc' = step.pc
    /\ UNCHANGED <<input, regions, config, finished, comp, hist, rc>>

HeadIs(kind) == Running /\ work.spill = None /\ head(work) # None
                /\ head(work)[1].kind = kind

\* Child::Multi.
Multi ==
    /\ HeadIs("multi")
    /\ LET u == head(work)[1]
           step == MultiStep(u.id, 0, u.h, work)
       IN  /\ dist' = step.dist
           /\ work' = IF step.deferred THEN work ELSE advance(step.work)
           /\ pc' = step.pc
    /\ UNCHANGED <<input, regions, config, finished, comp, hist, rc>>

\* Child::Tag: queued in Work.tags.
Tag ==
    /\ HeadIs("tag")
    /\ work' = advance([work EXCEPT !.tags = Append(@, head(work)[1].id)])
    /\ UNCHANGED <<pc, input, regions, config, finished, comp, dist, hist, rc>>

\* Child::Single: placed whole, or the column is finished without
\* consuming it; a block that can never fit, even in an empty region, is
\* placed and overflows.
Single ==
    /\ HeadIs("single")
    /\ LET u == head(work)[1]
       IN  IF Deferred(u.h)
           THEN /\ pc' = "colfin"
                /\ UNCHANGED <<work, dist, rc>>
           ELSE /\ dist' = Placed(dist, u.id, 0, u.h)
                /\ work' = advance(work)
                /\ pc' = "run"
    /\ UNCHANGED <<input, regions, config, finished, comp, hist, rc>>

\* Footnote handling by the composer, for the marker of a line that is
\* being placed.
\*   "skip" / "queue" / "reserve" / "relayout" / "violation" as for
\*               floats (queued: the entry waits in Work.footnotes),
\*   "partial"   the entry is rendered as far as it fits, the rest spills
FootnoteOutcome(u) ==
    LET space == Sub(Remaining, u.h)
    IN  IF Skipped(u.id) THEN "skip"
        ELSE IF \/ comp.footnote_queue # <<>>
                \/ comp.footnote_spill # None
                \/ space <= 0
        THEN "queue"
        ELSE IF Fits(space, u.note)
        THEN IF ~HasContent("column") THEN "reserve"
             ELSE IF MayRelayout("column") THEN "relayout"
             ELSE "violation"
        ELSE "partial"

\* Child::Line: like a single block, plus the footnote of its marker.
Line ==
    /\ HeadIs("line")
    /\ LET u == head(work)[1]
           o == FootnoteOutcome(u)
           space == Sub(Remaining, u.h)
           part == IF o = "partial" THEN Min(u.note, space) ELSE u.note
           noted == [comp EXCEPT
                        !.column_insertions = push_footnote(@, u.id, 0, part),
                        !.footnote_spill =
                            IF part < u.note THEN Some(Slice(u.id, part, u.note))
                            ELSE @]
       IN  IF Deferred(u.h)
           THEN /\ pc' = "colfin"
                /\ UNCHANGED <<work, dist, comp, rc>>
           ELSE IF o = "violation"
           THEN /\ pc' = "violation"
                /\ UNCHANGED <<work, dist, comp, rc>>
           ELSE IF o = "relayout"
           THEN /\ comp' = Raise(noted, "column", u.id)
                /\ pc' = "relayout"
                /\ UNCHANGED <<work, dist, rc>>
           ELSE /\ comp' = IF o \in {"reserve", "partial"} THEN noted
                           ELSE IF o = "queue"
                           THEN [comp EXCEPT !.footnote_queue =
                                    Append(@, [id |-> u.id, h |-> u.note])]
                           ELSE comp
                /\ dist' = Placed(dist, u.id, 0, u.h)
                /\ work' = advance(work)
                /\ pc' = "run"
    /\ UNCHANGED <<input, regions, config, finished, hist, rc>>

\* Child::Placed: a float met in the flow.
PlacedChild ==
    /\ HeadIs("placed")
    /\ LET u == head(work)[1]
           step == FloatStep(u, work)
       IN  /\ work' = IF step.pc = "run" THEN advance(step.work) ELSE step.work
           /\ comp' = step.comp
           /\ pc' = step.pc
           /\ hist' = IF hist.seen[u.id] = 0
                      THEN [hist EXCEPT !.seen[u.id] = Len(finished) + 1]
                      ELSE hist
    /\ UNCHANGED <<input, regions, config, finished, dist, rc>>

\* Distributor::run returns Ok(()): no spill and no child is left.
RunOut ==
    /\ Running
    /\ work.spill = None
    /\ head(work) = None
    /\ pc' = "colfin"
    /\ UNCHANGED <<input, regions, config, work, finished, comp, dist, hist, rc>>

\* ------------------------------------------------------------------------
\* Relayout and the end of a column and of the region
\* ------------------------------------------------------------------------
\* Faulty variant of the restore: the work of the discarded attempt is
\* kept.
Restore_keeping_work(w, checkpoint, cells) == [work |-> w, cells |-> cells]

\* "The region is redone using the same input Work": the work becomes a
\* clone of the checkpoint and the Work of the discarded attempt is
\* dropped.
Restore(w, checkpoint, cells) ==
    LET c == Work_clone(checkpoint, cells)
    IN  [work |-> c.work, cells |-> Work_drop(w, c.cells)]

\* Stop::Relayout caught by Composer::column (column scope) or by
\* Composer::page (parent scope): the attempt is discarded, the work is
\* reset to the checkpoint, the insertions stay.  A relayout of the page
\* leaves the column, whose checkpoint is dropped.
Relayout ==
    /\ pc = "relayout"
    /\ IF comp.stop = "column"
       THEN LET r == Restore(work, comp.column_checkpoint[1], rc)
            IN  /\ work' = r.work
                /\ rc' = r.cells
                /\ comp' = [comp EXCEPT !.stop = "none",
                                        !.footnote_queue = <<>>,
                                        !.footnote_spill = comp.column_spill]
                /\ pc' = "contents"
       ELSE LET r == Restore(work, comp.page_checkpoint[1], rc)
            IN  /\ work' = r.work
                /\ rc' = Work_drop(comp.column_checkpoint[1], r.cells)
                /\ comp' = [comp EXCEPT !.stop = "none",
                                        !.column = 0,
                                        !.column_insertions = NoInsertions,
                                        !.column_checkpoint = None,
                                        !.footnote_queue = <<>>,
                                        !.footnote_spill = None,
                                        !.column_spill = None,
                                        !.output = EmptyFrame]
                /\ pc' = "column"
    /\ dist' = NewDistributor
    /\ hist' = [hist EXCEPT !.relayouts = @ + 1]
    /\ UNCHANGED <<input, regions, config, finished>>

\* A scope would have to be redone a second time within one region: the
\* composition is rejected as a violation of the relayout bound, which
\* ends the flow like any fatal error.
RelayoutViolation ==
    /\ pc = "violation"
    /\ finished' = Discard(finished)
    /\ hist' = [hist EXCEPT !.fault = "relayout"]
    /\ pc' = "error"
    /\ UNCHANGED <<input, regions, config, work, comp, dist, rc>>

\* Faulty variant of the column's frame: the queued tags are left out.
ColumnFrame_without_tags(w) ==
    [items |-> dist.items,
     floats |-> comp.column_insertions.floats,
     notes |-> comp.column_insertions.notes,
     tags |-> <<>>]

\* The column's frame: its content, its insertions and the queued tags.
ColumnFrame(w) ==
    [items |-> dist.items,
     floats |-> comp.column_insertions.floats,
     notes |-> comp.column_insertions.notes,
     tags |-> w.tags]

Stitch(a, b) ==
    [items |-> a.items \o b.items, floats |-> a.floats \o b.floats,
     notes |-> a.notes \o b.notes, tags |-> a.tags \o b.tags]

\* Composer::column, second part: drop the checkpoint, hand the queued
\* footnotes and the footnote spill over to the work, finalize the column
\* insertions, and go on with the next column, if any.
ColumnFinish ==
    /\ pc = "colfin"
    /\ LET queued == [work EXCEPT
                        !.footnotes = @ \o comp.footnote_queue,
                        !.footnote_spill =
                            IF comp.footnote_spill # None
                            THEN comp.footnote_spill ELSE @]
           dropped == Work_drop(comp.column_checkpoint[1], rc)
           e == extend_skips(queued, dropped, comp.column_insertions.skips)
           w == e.work
       IN  /\ work' = [w EXCEPT !.tags = <<>>]
           /\ rc' = e.cells
           /\ comp' = [comp EXCEPT !.output = Stitch(@, ColumnFrame(w)),
                                   !.column_checkpoint = None,
                                   !.footnote_queue = <<>>,
                                   !.footnote_spill = None,
                                   !.column = IF @ + 1 < config.count THEN @ + 1 ELSE @]
    /\ hist' = [hist EXCEPT !.extended = @ \/ comp.column_insertions.skips # {}]
    /\ pc' = IF comp.column + 1 < config.count THEN "column" ELSE "pagefin"
    /\ UNCHANGED <<input, regions, config, finished, dist>>

\* Nothing is left to lay out: no children, spill, floats, footnotes or
\* footnote spill.
NothingLeft(w) ==
    /\ w.children = <<>>
    /\ w.spill = None
    /\ w.floats = <<>>
    /\ w.footnotes = <<>>
    /\ w.footnote_spill = None

\* The frame of the region: the stitched columns and the page insertions.
\* `region` records which compose call produced the frame.
PageFrame ==
    [items |-> comp.output.items,
     floats |-> comp.output.floats \o comp.page_insertions.floats,
     notes |-> comp.output.notes,
     tags |-> comp.output.tags,
     region |-> hist.composed]

\* Composer::page returns: the checkpoint is dropped and the page
\* insertions are finalized into the frame; layout_flow pushes the frame.
PageFinish ==
    /\ pc = "pagefin"
    /\ LET dropped == Work_drop(comp.page_checkpoint[1], rc)
           e == extend_skips(work, dropped, comp.page_insertions.skips)
       IN  /\ work' = e.work
           /\ rc' = e.cells
    /\ comp' = [comp EXCEPT !.page_checkpoint = None]
    /\ finished' = push(finished, PageFrame)
    /\ hist' = [hist EXCEPT !.dones = IF NothingLeft(work') THEN @ + 1 ELSE @]
    /\ pc' = "loop"
    /\ UNCHANGED <<input, regions, config, dist>>

\* ------------------------------------------------------------------------
\* The region loop of layout_flow
\* ------------------------------------------------------------------------
\* if work.done() && (!regions.expand.y || regions.backlog.is_empty())
\* { break; } regions.next();
LoopTest ==
    /\ pc = "loop"
    /\ IF LoopExit(work, regions)
       THEN /\ pc' = "done"
            /\ UNCHANGED regions
       ELSE /\ pc' = "compose"
            /\ regions' = Regions_next(regions)
    /\ UNCHANGED <<input, config, work, finished, comp, dist, hist, rc>>

Next ==
    \/ LayoutFragment
    \/ LayoutFlow
    \/ Compose
    \/ ComposeError
    \/ Column
    \/ ColumnContents
    \/ PendingFootnote
    \/ PendingFloat
    \/ MultiSpill
    \/ Multi
    \/ Tag
    \/ Single
    \/ Line
    \/ PlacedChild
    \/ RunOut
    \/ Relayout
    \/ RelayoutViolation
    \/ ColumnFinish
    \/ PageFinish
    \/ LoopTest

Spec == Init /\ [][Next]_vars

\* ------------------------------------------------------------------------
\* The column configuration on its own
\* ------------------------------------------------------------------------
\* Region widths, column counts and gutters for configuration(): gutters
\* of zero, a part of the width, more than the width, and below zero (a
\* Rel<Abs> is signed and is not validated).
Widths == {6, 12, Inf}
Gutters == { Rel(a, r) : a \in {-1, 0, 2, 7}, r \in {0, 50} }

ColumnRequests ==
    { [Request(sx, 3, <<>>, None, FALSE, FALSE, c) EXCEPT !.gutter = g] :
        sx \in Widths, c \in 1..MaxColumns, g \in Gutters }

\* The horizontal extent of column i (from 0) in a left-to-right flow, in
\* units of 1 / count: columns follow each other at a distance of
\* width + gutter.
ColumnStart(cfg, i) == i * (cfg.width.num + cfg.gutter * cfg.count)
ColumnEnd(cfg, i) ==
    IF IsFinite(cfg.width.num) THEN ColumnStart(cfg, i) + cfg.width.num ELSE Inf

InitColumns ==
    /\ pc = "configure"
    /\ input \in [children : {<<>>}, request : ColumnRequests,
                   entry : {"layout_flow"}]
    /\ regions = RegionsOf(input.request)
    /\ config = configuration(regions, 1, Rel(0, 0))
    /\ work = Work_new(<<>>)
    /\ finished = <<>>
    /\ comp = NewComposer(None)
    /\ dist = NewDistributor
    /\ hist = [seen |-> <<>>, page_start |-> work, column_start |-> work,
               composed |-> 0, relayouts |-> 0, dones |-> 0, ran |-> {}]
    /\ rc = NoCells

\* layout_flow's call of configuration().
Configure ==
    /\ pc = "configure"
    /\ config' = configuration(regions, input.request.columns,
                               input.request.gutter)
    /\ hist' = [hist EXCEPT !.ran = {"configuration"}]
    /\ pc' = "columns"
    /\ UNCHANGED <<input, regions, work, finished, comp, dist, rc>>

\* The composer goes from one column to the next.
NextColumn ==
    /\ pc = "columns"
    /\ comp.column + 1 < config.count
    /\ comp' = [comp EXCEPT !.column = @ + 1]
    /\ UNCHANGED <<pc, input, regions, config, work, finished, dist, hist, rc>>

NextColumns == Configure \/ NextColumn

SpecColumns == InitColumns /\ [][NextColumns]_vars

\* ------------------------------------------------------------------------
\* The skip set across checkpoints and relayouts
\* ------------------------------------------------------------------------
\* Here Work.skips is a handle to a cell of rc.  The composer clones the
\* Work as the checkpoint of the page and of each column, finalizes the
\* insertions of an accepted column or page with extend_skips, and goes
\* back to the checkpoint at a relayout.
Locations == 1..MaxLocations
Scopes == {"column", "parent"}

Checkpoint(scope) ==
    IF scope = "parent" THEN comp.page_checkpoint ELSE comp.column_checkpoint

WithCheckpoint(c, scope, v) ==
    IF scope = "parent" THEN [c EXCEPT !.page_checkpoint = v]
    ELSE [c EXCEPT !.column_checkpoint = v]

InitSkips ==
    /\ pc = "skips"
    /\ input = [children |-> <<>>,
                request |-> Request(12, 3, <<>>, None, FALSE, FALSE, 1),
                entry |-> "layout_flow"]
    /\ regions = RegionsOf(input.request)
    /\ config = configuration(regions, 1, Rel(0, 0))
    /\ rc = Rc_new(NoCells, {}).cells
    /\ work = [Work_new(<<>>) EXCEPT !.skips = Rc_new(NoCells, {}).ptr]
    /\ finished = <<>>
    /\ comp = [NewComposer(work) EXCEPT !.page_checkpoint = None,
                                        !.column_checkpoint = None]
    /\ dist = NewDistributor
    /\ hist = [cloned |-> [sc \in Scopes |-> {}],
               op |-> "new", before |-> {}]

\* let checkpoint = self.work.clone(): the page's before the column's.
TakeCheckpoint ==
    \E scope \in Scopes :
        /\ Checkpoint(scope) = None
        /\ scope = "column" => Checkpoint("parent") # None
        /\ scope = "parent" => Checkpoint("column") = None
        /\ comp' = WithCheckpoint(comp, scope, Some(work))
        /\ rc' = Rc_clone(rc, work.skips)
        /\ hist' = [hist EXCEPT !.cloned[scope] = SkipsOf(work),
                                !.op = "clone", !.before = SkipsOf(work)]
        /\ UNCHANGED <<pc, input, regions, config, work, finished, dist>>

\* Insertions finalized: work.extend_skips(&self.skips).
ExtendSkips ==
    \E skips \in SUBSET Locations :
        LET r == extend_skips(work, rc, skips)
        IN  /\ work' = r.work
            /\ rc' = r.cells
            /\ hist' = [hist EXCEPT !.op = "extend", !.before = SkipsOf(work)]
            /\ UNCHANGED <<pc, input, regions, config, finished, comp, dist>>

\* Stop::Relayout(scope): *self.work = checkpoint.clone().  A relayout of
\* the page leaves the column, whose checkpoint is dropped.
RestoreCheckpoint ==
    \E scope \in Scopes :
        /\ Checkpoint(scope) # None
        /\ LET c == Checkpoint(scope)[1]
               col == comp.column_checkpoint
               swapped == Rc_drop(Rc_clone(rc, c.skips), work.skips)
           IN  /\ work' = c
               /\ IF scope = "parent" /\ col # None
                  THEN /\ rc' = Rc_drop(swapped, col[1].skips)
                       /\ comp' = WithCheckpoint(comp, "column", None)
                  ELSE /\ rc' = swapped
                       /\ comp' = comp
        /\ hist' = [hist EXCEPT !.op = "restore", !.before = SkipsOf(work)]
        /\ UNCHANGED <<pc, input, regions, config, finished, dist>>

\* The column or page is accepted: drop(checkpoint).
DropCheckpoint ==
    \E scope \in Scopes :
        /\ Checkpoint(scope) # None
        /\ scope = "parent" => Checkpoint("column") = None
        /\ comp' = WithCheckpoint(comp, scope, None)
        /\ rc' = Rc_drop(rc, Checkpoint(scope)[1].skips)
        /\ hist' = [hist EXCEPT !.op = "drop", !.before = SkipsOf(work)]
        /\ UNCHANGED <<pc, input, regions, config, work, finished, dist>>

NextSkips ==
    \/ TakeCheckpoint
    \/ ExtendSkips
    \/ RestoreCheckpoint
    \/ DropCheckpoint

SpecSkips == InitSkips /\ [][NextSkips]_vars

\* ------------------------------------------------------------------------
\* The output, flattened over the finished frames
\* ------------------------------------------------------------------------
RECURSIVE AllItems(_)
AllItems(frames) ==
    IF frames = <<>> THEN <<>> ELSE Head(frames).items \o AllItems(Tail(frames))

RECURSIVE AllFloats(_)
AllFloats(frames) ==
    IF frames = <<>> THEN <<>> ELSE Head(frames).floats \o AllFloats(Tail(frames))

RECURSIVE AllNotes(_)
AllNotes(frames) ==
    IF frames = <<>> THEN <<>> ELSE Head(frames).notes \o AllNotes(Tail(frames))

RECURSIVE AllTags(_)
AllTags(frames) ==
    IF frames = <<>> THEN <<>> ELSE Head(frames).tags \o AllTags(Tail(frames))

Count(seq, x) == Cardinality({ i \in DOMAIN seq : seq[i] = x })

SlicesOf(seq, id) == SelectSeq(seq, LAMBDA sl : sl.id = id)

\* The slices partition [0, h): they start at 0, end at h, are not empty
\* and each begins where the one before ended.
Covers(sl, h) ==
    /\ sl # <<>>
    /\ sl[1].from = 0
    /\ sl[Len(sl)].to = h
    /\ \A i \in DOMAIN sl : sl[i].from < sl[i].to
    /\ \A i \in 1..(Len(sl) - 1) : sl[i].to = sl[i + 1].from

Terminated == pc \in {"done", "error"}

Children == input.children

IsContent(u) == u.kind \in {"single", "line", "multi"}

\* The work left, as a number: every child weighs more than what it can
\* leave behind in the queues of the work, and a float or footnote that is
\* already inserted (in skips) weighs less than one that is not.
RECURSIVE Weight(_, _)
Weight(units, skips) ==
    IF units = <<>> THEN 0
    ELSE LET u == Head(units)
         IN  (CASE u.kind = "multi" -> u.h + 1
                [] u.kind = "placed" -> IF u.id \in skips THEN 1 ELSE 3
                [] u.kind = "line" -> IF u.id \in skips THEN 1 ELSE u.note + 2
                [] OTHER -> 1)
             + Weight(Tail(units), skips)

RECURSIVE NoteHeights(_)
NoteHeights(notes) ==
    IF notes = <<>> THEN 0 ELSE Head(notes).h + NoteHeights(Tail(notes))

Rest(opt) == IF opt = None THEN 0 ELSE opt[1].to - opt[1].from

Measure(w) ==
    Weight(w.children, w.skips) + Rest(w.spill) + 2 * Len(w.floats)
    + NoteHeights(w.footnotes) + Rest(w.footnote_spill)

\* ------------------------------------------------------------------------
\* Claims
\* ------------------------------------------------------------------------
Items == AllItems(finished)
Floats == AllFloats(finished)
Notes == AllNotes(finished)

\* The state right after a compose call returned and its frame was pushed.
AfterCompose == pc = "loop"

Drained(w) ==
    /\ w.spill = None
    /\ w.floats = <<>>
    /\ w.footnotes = <<>>
    /\ w.footnote_spill = None

\* C1 as stated: every compose call either strictly shortens Work.children
\* or fully drains spill, floats and footnotes.
C1_ShortensOrDrains ==
    AfterCompose =>
        \/ Len(work.children) < Len(hist.page_start.children)
        \/ Drained(work)

\* C1 as amended: the region loop terminates (no state short of the end is
\* stuck, and the cap on regions is never reached), because every compose
\* call that starts with work left either reduces the work left (children,
\* the rest of the spill, queued floats and footnotes, the footnote spill,
\* insertions not yet made) or is followed by a region that differs from
\* the current one (a backlog entry, or the last region's height).
C1_Terminates ==
    /\ Terminated \/ ENABLED Next
    /\ AfterCompose =>
        \/ NothingLeft(hist.page_start)
        \/ Measure(View(work)) < Measure(hist.page_start)
        \/ Regions_next(regions) # regions

\* C1 witness: a flow of one child that ended after three regions or more,
\* so some compose call did not shorten the children.
C1_Witness == pc = "done" /\ Len(Children) = 1 /\ Len(finished) >= 3

\* C2: when layout_flow returns, every input unit appears exactly once in
\* the output: a single block or line whole, a breakable block as slices
\* that partition it, a float once among the floats, a tag once among the
\* tags; and nothing else appears.
C2_Complete ==
    pc = "done" =>
        /\ \A i \in DOMAIN Children :
            LET u == Children[i]
            IN  CASE u.kind \in {"single", "line"} ->
                        SlicesOf(Items, i) = <<Slice(i, 0, u.h)>>
                  [] u.kind = "multi" -> Covers(SlicesOf(Items, i), u.h)
                  [] u.kind = "placed" ->
                        Count(Floats, i) = 1 /\ SlicesOf(Items, i) = <<>>
                  [] u.kind = "tag" -> Count(AllTags(finished), i) = 1
        /\ \A j \in DOMAIN Items : Items[j].id \in DOMAIN Children
        /\ Len(Floats) = Cardinality({ i \in DOMAIN Children : Children[i].kind = "placed" })

\* C2 witness: a finished flow with a relayouted region and a breakable
\* block in more than one slice.
C2_Witness ==
    /\ pc = "done"
    /\ hist.relayouts > 0
    /\ \E i \in DOMAIN Children : Len(SlicesOf(Items, i)) >= 2

\* C3: after each composed region the driver stops exactly if nothing is
\* left and (expand.y is off or the backlog is empty), and otherwise moves
\* to the next region; so at the return nothing is left, and with expand.y
\* the backlog is drained.
C3_LoopExit ==
    /\ [](pc = "done" =>
            /\ NothingLeft(work)
            /\ regions.expand_y => regions.backlog = <<>>)
    /\ [][AfterCompose =>
            IF NothingLeft(work) /\ (~regions.expand_y \/ regions.backlog = <<>>)
            THEN pc' = "done" /\ regions' = regions /\ finished' = finished
            ELSE pc' = "compose" /\ regions' = Regions_next(regions)]_vars

\* C3 witness: an empty flow with expand.y that drained its backlog and so
\* returned two frames.
C3_Witness ==
    /\ pc = "done"
    /\ regions.expand_y
    /\ Children = <<>>
    /\ Len(finished) = 2

\* C4 as stated: done() holds after exactly one compose call, the last.
C4_DoneExactlyOnce == pc = "done" => hist.dones = 1

\* C4 as amended: done() holds after the last compose call, and once it
\* holds after a compose call it holds after every later one; it holds
\* after exactly one compose call when expand.y is off, and with expand.y
\* after at most one call more per backlog entry.
C4_DoneAtTheEnd ==
    /\ pc = "done" => NothingLeft(work) /\ hist.dones >= 1
    /\ (AfterCompose /\ hist.dones > 1) => NothingLeft(work)
    /\ ~regions.expand_y => hist.dones <= 1
    /\ hist.dones <= 1 + Len(input.request.backlog)

\* C4 witness: a flow that returned with done() having held after two
\* compose calls.
C4_Witness == pc = "done" /\ hist.dones = 2

\* C5: the output holds one frame per compose call, in the order of the
\* calls, and at least one frame at the return.
C5_OneFramePerRegion ==
    /\ pc \in {"loop", "done"} => Len(finished) = hist.composed
    /\ pc = "done" => Len(finished) >= 1
    /\ \A k \in DOMAIN finished : finished[k].region = k

\* C5 witness: a returned flow of three frames or more with a relayout.
C5_Witness == pc = "done" /\ Len(finished) >= 3 /\ hist.relayouts > 0

C7_SameInputWork ==
    /\ pc = "contents" => View(work) = hist.column_start
    /\ (pc = "column" /\ comp.column = 0) => View(work) = hist.page_start
    /\ comp.page_checkpoint # None =>
        View(comp.page_checkpoint[1]) = hist.page_start
    /\ comp.column_checkpoint # None =>
        View(comp.column_checkpoint[1]) = hist.column_start
    /\ (comp.raised # 0 /\ pc \in {"contents", "column", "run"}) =>
        Skipped(comp.raised)

\* C7 witness: the start of the retry of a region whose discarded attempt
\* had accepted a column and extended the skip set of the live Work with
\* the insertions of that column; the retry starts with the skip set of
\* the first attempt.
C7_Witness ==
    /\ pc = "column"
    /\ comp.column = 0
    /\ comp.relayouts.parent = 1
    /\ hist.extended
    /\ SkipsOf(work) = {}
    /\ work.children # <<>>

\* C8: a float is in a frame only at or after the region in which it was
\* first met, it is never in the output twice, and at the return every
\* placed unit is in exactly one frame and no float is left queued.
C8_FloatPlacement ==
    /\ \A k \in DOMAIN finished : \A j \in DOMAIN finished[k].floats :
            hist.seen[finished[k].floats[j]] \in 1..k
    /\ \A i \in DOMAIN Children : Count(Floats, i) <= 1
    /\ pc = "done" =>
            /\ work.floats = <<>>
            /\ \A i \in DOMAIN Children :
                    Children[i].kind = "placed" => Count(Floats, i) = 1

\* C8 witness: a returned flow with a float in a later region than the one
\* it was first met in, and a relayout.
C8_Witness ==
    /\ pc = "done"
    /\ hist.relayouts > 0
    /\ \E k \in DOMAIN finished : \E j \in DOMAIN finished[k].floats :
            hist.seen[finished[k].floats[j]] < k

\* C9: at the return the footnote entries in the output are those of the
\* markers of the input, each rendered exactly once (in slices that
\* partition it when it spilled), in the order of the markers.
C9_FootnoteConservation ==
    /\ \A a, b \in DOMAIN Notes : a < b => Notes[a].id <= Notes[b].id
    /\ pc = "done" =>
            \A i \in DOMAIN Children :
                IF Children[i].note > 0
                THEN Covers(SlicesOf(Notes, i), Children[i].note)
                ELSE SlicesOf(Notes, i) = <<>>

\* C9 witness: a returned flow with a footnote entry that was queued for a
\* later region and one that spilled over two regions.
C9_Witness ==
    /\ pc = "done"
    /\ \E i \in DOMAIN Children : Len(SlicesOf(Notes, i)) >= 2

\* C10 as stated: Work.children only shrinks from the front, one unit per
\* advance: no step makes it longer.
C10_OnlyShrinks ==
    [][pc # "start" =>
        \/ work'.children = work.children
        \/ work.children # <<>> /\ work'.children = Tail(work.children)]_vars

\* C10 as amended: Work.children is always a suffix of the input children,
\* never reordered; a step leaves it as it is, drops its first unit (one
\* advance), or, at a relayout, puts back the longer suffix of the
\* checkpoint; from one compose call to the next it only shrinks; and the
\* blocks and lines are in the output in input order.
C10_OrderPreserved ==
    /\ [](pc # "start" =>
            \E k \in 0..Len(Children) :
                work.children = SubSeq(Children, k + 1, Len(Children)))
    /\ [](\A a, b \in DOMAIN Items : a < b => Items[a].id <= Items[b].id)
    /\ [](\A j \in DOMAIN Items : IsContent(Children[Items[j].id]))
    /\ [](AfterCompose =>
            Len(work.children) <= Len(hist.page_start.children))
    /\ [][pc # "start" =>
            \/ work'.children = work.children
            \/ work.children # <<>> /\ work'.children = Tail(work.children)
            \/ /\ pc = "relayout"
               /\ work'.children \in {hist.column_start.children,
                                      hist.page_start.children}
               /\ Len(work'.children) >= Len(work.children)]_vars

\* C10 witness: a returned flow of three content units over two frames or
\* more, with a relayout.
C10_Witness ==
    /\ pc = "done"
    /\ Len(finished) >= 2
    /\ hist.relayouts > 0
    /\ Cardinality({ Items[j].id : j \in DOMAIN Items }) >= 2

\* C11: when a compose call returns an error, in the first region or after
\* earlier regions were finished, layout_flow returns the error and none of
\* the frames finished before; frames are only returned by a flow that
\* ends without error.
C11_NoPartialOutput ==
    /\ pc = "error" => finished = <<>>
    /\ finished # <<>> => Len(finished) <= hist.composed

\* C11 witness: the third compose call failed, after two frames had been
\* finished, and no frame is left.
C11_Witness ==
    /\ pc = "error"
    /\ hist.composed = 3
    /\ finished = <<>>

\* A request that expands into an unbounded axis.
ExpandsUnbounded ==
    \/ ~IsFinite(input.request.size_x) /\ input.request.expand_x
    \/ ~IsFinite(input.request.size_y) /\ input.request.expand_y

\* C12: a request to layout_fragment_impl with unbounded width and
\* expand.x, or with unbounded height and expand.y (either alone
\* suffices), fails before any layout work: the depth check, realization,
\* configuration, collection and compose are never run and no frame is
\* produced. Only such a request is rejected, and every other one gets to
\* the depth check and, unless a stage reports an error, through all
\* stages to the loop. The check is on the outer entry point, not on the
\* loop: layout_flow entered by itself rejects no request.
C12_PreconditionRejection ==
    /\ (input.entry = "layout_fragment" /\ ExpandsUnbounded) =>
        /\ pc \in {"start", "error"}
        /\ pc = "error" => hist.fault = "precondition"
        /\ hist.ran = {}
        /\ hist.composed = 0
        /\ finished = <<>>
        /\ work = Work_new(<<>>)
    /\ hist.fault = "precondition" =>
        (input.entry = "layout_fragment" /\ ExpandsUnbounded)
    /\ (input.entry = "layout_fragment" /\ pc # "start" /\ ~ExpandsUnbounded) =>
        /\ "depth" \in hist.ran
        /\ pc # "error" => Stages \subseteq hist.ran
    /\ (input.entry = "layout_flow" /\ pc # "start") =>
        hist.ran \cap Stages = {"configuration", "collect"}

\* C12 witness: a request with children, a bounded width and an unbounded
\* height with expand.y was rejected.
C12_Witness ==
    /\ pc = "error"
    /\ input.entry = "layout_fragment"
    /\ hist.fault = "precondition"
    /\ Children # <<>>
    /\ IsFinite(input.request.size_x)
    /\ ~IsFinite(input.request.size_y)
    /\ input.request.expand_y

\* The heights of all regions the request offers.
RegionHeights ==
    {input.request.size_y}
    \cup { input.request.backlog[k] : k \in DOMAIN input.request.backlog }
    \cup { input.request.last[k] : k \in DOMAIN input.request.last }

\* A unit that fits no region of the request even when the region is
\* empty: an unbreakable block taller than every region.  (A breakable
\* block is laid out slice by slice and a slice always fits.)
Oversized(u) ==
    /\ u.kind = "single"
    /\ \A h \in RegionHeights : u.h > h

\* The frames that hold a piece of the unit.
FramesOf(i) ==
    { k \in DOMAIN finished :
        \E j \in DOMAIN finished[k].items : finished[k].items[j].id = i }

\* C13: a unit that cannot fit even in an empty region is emitted all the
\* same, whole and in one frame (which it overflows); the flow does not
\* fail because of it (it ends in an error only when the preconditions,
\* a stage before the loop or a compose call reported one, or when a
\* float or footnote asked for a second relayout of a scope) and does not
\* defer the unit forever (the region loop never runs into the cap on
\* regions).
C13_GracefulOverflow ==
    /\ pc = "done" =>
        \A i \in DOMAIN Children :
            Oversized(Children[i]) =>
                /\ SlicesOf(Items, i) = <<Slice(i, 0, Children[i].h)>>
                /\ Cardinality(FramesOf(i)) = 1
    /\ pc = "compose" => Len(finished) < MaxRegions
    /\ pc = "error" <=> hist.fault # "none"
    /\ hist.fault = "compose" => hist.composed > Len(finished)
    /\ hist.fault = "relayout" =>
        /\ hist.composed > Len(finished)
        /\ comp.raised # 0
        /\ ~IsContent(Children[comp.raised]) \/ Children[comp.raised].note > 0
    /\ hist.fault \in {"precondition", "depth", "realize", "collect"} =>
        hist.composed = 0

\* C13 witness: a flow with an oversized unit that is not the only child
\* returned, over regions that repeat at a height the unit does not fit.
C13_Witness ==
    /\ pc = "done"
    /\ input.request.last # None
    /\ Len(Children) >= 2
    /\ \E i \in DOMAIN Children :
        Oversized(Children[i]) /\ Children[i].kind = "single"

\* The request of layout_frame: Regions made from one Region (no backlog,
\* no repeated last region), one column.
SingleRegion ==
    /\ input.request.backlog = <<>>
    /\ input.request.last = None
    /\ input.request.columns = 1

RECURSIVE TotalHeight(_)
TotalHeight(units) ==
    IF units = <<>> THEN 0
    ELSE Head(units).h + Head(units).note + TotalHeight(Tail(units))

HoldsOnly(frame, i) == frame.items = <<Slice(i, 0, Children[i].h)>>

\* Two unbreakable blocks, each taller than half the region, in one
\* column, on a single region: no backlog, and no repeated last region
\* or the region itself as the repeated last region.
TwoTallBlocks ==
    /\ Len(Children) = 2
    /\ \A i \in DOMAIN Children :
        Children[i].kind = "single" /\ 2 * Children[i].h > input.request.size_y
    /\ input.request.backlog = <<>>
    /\ input.request.last \in {None, Some(input.request.size_y)}
    /\ input.request.columns = 1
    /\ IsFinite(input.request.size_y)

\* C15: two unbreakable blocks, each taller than half the region, on a
\* single region: the first compose call places the first block and
\* leaves the second unconsumed at the head of the children, the loop
\* moves on to a further region like the first, the second block goes
\* there, and the output has two frames with one block in each.
C15_TwoBlocksTwoFrames ==
    TwoTallBlocks =>
        /\ (pc = "loop" /\ Len(finished) = 1) =>
            /\ HoldsOnly(finished[1], 1)
            /\ work.children = <<Children[2]>>
            /\ Regions_next(regions) = regions
        /\ pc = "done" =>
            /\ Len(finished) = 2
            /\ HoldsOnly(finished[1], 1)
            /\ HoldsOnly(finished[2], 2)

\* C15 witness: the scenario with two blocks of two thirds of the height
\* of the region, on Regions made from one Region, returned.
C15_Witness ==
    /\ pc = "done"
    /\ TwoTallBlocks
    /\ input.request.last = None
    /\ \A i \in DOMAIN Children : 3 * Children[i].h = 2 * input.request.size_y
    /\ Len(finished) = 2

\* One breakable block of 2.5 times the height of the region, in one
\* column, over regions of equal height (the region repeats).
TallBlock ==
    /\ Len(Children) = 1
    /\ Children[1].kind = "multi"
    /\ 2 * Children[1].h = 5 * input.request.size_y
    /\ input.request.backlog = <<>>
    /\ input.request.last = Some(input.request.size_y)
    /\ input.request.columns = 1

\* The piece of the block that belongs to the k-th region of height H.
Piece(k, H, h) == Slice(1, H * (k - 1), IF H * k < h THEN H * k ELSE h)

\* C16: a breakable block of 2.5 times the region height over equal
\* regions gives three frames: the first two are full (a slice of the
\* height of the region each), the third holds the remaining half region;
\* the slices partition the block without gap or overlap; and between the
\* compose calls the rest of the block is carried in Work.spill, with no
\* child left.
C16_TallBlockThreeFrames ==
    TallBlock =>
        LET H == input.request.size_y
            h == Children[1].h
        IN  /\ \A k \in DOMAIN finished : finished[k].items = <<Piece(k, H, h)>>
            /\ pc = "loop" =>
                /\ work.children = <<>>
                /\ work.spill =
                     IF H * Len(finished) < h
                     THEN Some(Slice(1, H * Len(finished), h)) ELSE None
            /\ pc = "done" =>
                /\ Len(finished) = 3
                /\ Covers(Items, h)
                /\ finished[3].items[1].to - finished[3].items[1].from < H

\* C16 witness: the scenario returned three frames and the third frame
\* holds the last fifth of the block.
C16_Witness ==
    /\ pc = "done"
    /\ TallBlock
    /\ Len(finished) = 3
    /\ finished[3].items = <<Slice(1, 4, 5)>>

\* The columns of the configuration and the region width, in units of
\* 1 / count.
Configured == pc = "columns"
ColumnIds == 0..(config.count - 1)
ScaledWidth == IF IsFinite(regions.size_x) THEN regions.size_x * config.count ELSE Inf

\* C17 as stated: count * w + (count - 1) * g is the region width, and the
\* column rectangles never overlap, for every region width and gutter.
C17_ColumnsNeverOverlap ==
    Configured =>
        /\ ColumnEnd(config, config.count - 1) = ScaledWidth
        /\ \A i, j \in ColumnIds :
            i < j => ColumnEnd(config, i) <= ColumnStart(config, j)
        /\ \A i \in ColumnIds : ColumnStart(config, i) <= ColumnEnd(config, i)

\* C17, the part that holds: count * w + (count - 1) * g is the region
\* width for every width and gutter, and the columns do not overlap when
\* the gutter is not negative and the gutters together are not wider than
\* the region.
C17_ColumnsSpanRegion ==
    Configured =>
        /\ ColumnEnd(config, config.count - 1) = ScaledWidth
        /\ (config.gutter >= 0 /\ config.width.num >= 0) =>
            /\ \A i, j \in ColumnIds :
                i < j => ColumnEnd(config, i) <= ColumnStart(config, j)
            /\ \A i \in ColumnIds : ColumnStart(config, i) <= ColumnEnd(config, i)

\* C17 witness: two columns with a gutter wider than the region, so that
\* the column width is negative.
C17_Witness ==
    /\ Configured
    /\ config.count = 2
    /\ comp.column = 1
    /\ config.width.num < 0

\* The handles to a cell: the live Work and the checkpoints.
Handles(c) ==
    (IF work.skips = c THEN 1 ELSE 0)
    + (IF comp.page_checkpoint # None /\ comp.page_checkpoint[1].skips = c
       THEN 1 ELSE 0)
    + (IF comp.column_checkpoint # None /\ comp.column_checkpoint[1].skips = c
       THEN 1 ELSE 0)

\* A checkpoint sees the skip set as it was when the Work was cloned.
SnapshotsIsolated ==
    \A scope \in Scopes :
        Checkpoint(scope) # None =>
            SkipsOf(Checkpoint(scope)[1]) = hist.cloned[scope]

\* C18 as stated: a snapshot cloned before extend_skips still sees the
\* skip set as it was when it was cloned, and the live set only ever grows.
C18_LiveSetOnlyGrows ==
    /\ SnapshotsIsolated
    /\ hist.before \subseteq SkipsOf(work)

\* C18 as amended: a snapshot cloned before extend_skips still sees the
\* skip set as it was when it was cloned (every cell has as many handles
\* as the counter says, and a shared cell is never written); extend_skips
\* only adds to the live set; and a relayout puts the live Work back to
\* the snapshot, with the set of the snapshot, so what the discarded
\* attempt added is gone.
C18_SkipIsolation ==
    /\ SnapshotsIsolated
    /\ \A c \in Cells : rc[c].strong = Handles(c)
    /\ hist.op = "extend" => hist.before \subseteq SkipsOf(work)
    /\ hist.op = "restore" =>
        \E scope \in Scopes :
            Checkpoint(scope) # None /\ SkipsOf(work) = hist.cloned[scope]

\* C18 witness: the live Work was extended while the checkpoints of the
\* page and of the column were alive, and the three see different sets.
C18_Witness ==
    /\ hist.op = "extend"
    /\ comp.page_checkpoint # None
    /\ comp.column_checkpoint # None
    /\ SkipsOf(comp.page_checkpoint[1]) # SkipsOf(comp.column_checkpoint[1])
    /\ SkipsOf(comp.column_checkpoint[1]) # SkipsOf(work)

\* Whether the child with this identity is still among the children.
Queued(children, i) == \E j \in DOMAIN children : children[j].id = i

TagIds == { i \in DOMAIN Children : Children[i].kind = "tag" }

\* C19: no tag is lost.  After every compose call Work.tags is empty: a
\* tag that was taken from the children during the call is attached to the
\* frame of that call, exactly once, and a tag that is still among the
\* children is in no frame; so when layout_flow returns, whose exit test
\* does not look at the tags, every tag is in exactly one frame.
C19_NoTagLost ==
    pc \in {"loop", "done"} =>
        /\ work.tags = <<>>
        /\ \A i \in TagIds :
              IF Queued(work.children, i)
              THEN Count(AllTags(finished), i) = 0
              ELSE /\ Count(AllTags(finished), i) = 1
                   /\ Queued(hist.page_start.children, i) =>
                        Count(finished[Len(finished)].tags, i) = 1
        /\ Len(AllTags(finished)) <= Cardinality(TagIds)

\* C19 witness: a flow whose last child is a tag returned, and the tag is
\* attached to the second frame, after a relayout.
C19_Witness ==
    /\ pc = "done"
    /\ hist.relayouts > 0
    /\ Len(finished) >= 2
    /\ Children # <<>>
    /\ Children[Len(Children)].kind = "tag"
    /\ Count(finished[2].tags, Len(Children)) = 1

\* C20: once the configuration is computed, the column count is 1 when the
\* width of the first region is unbounded, whatever count was requested,
\* and the requested count when it is finite; and count, width and gutter
\* are those computed from the first region in every later state of the
\* flow, for every region that is composed.
C20_ConfigurationOnce ==
    "configuration" \in hist.ran =>
        LET req == input.request
            g == req.gutter.abs
                 + (IF IsFinite(req.size_x)
                    THEN (req.gutter.ratio * req.size_x) \div 100 ELSE 0)
        IN  /\ ~IsFinite(req.size_x) => config.count = 1
            /\ IsFinite(req.size_x) => config.count = req.columns
            /\ config.gutter = g
            /\ config.width.den = config.count
            /\ config.width.num =
                 IF IsFinite(req.size_x)
                 THEN req.size_x - g * (config.count - 1) ELSE Inf
            /\ regions.size_x = req.size_x

\* C20 witness: a flow with children on an unbounded width, for which two
\* columns were requested, returned with one column configured.
C20_Witness ==
    /\ pc = "done"
    /\ Children # <<>>
    /\ ~IsFinite(input.request.size_x)
    /\ input.request.columns = 2
    /\ config.count = 1
====
